---- MODULE Spec2Model ----
(***************************************************************************)
(* Door-alarm controller of eDOMOS-v2.1: the monitor thread                *)
(* (monitor_door), the countdown threads (alarm_timer), the event pipeline *)
(* (log_event) and the request handlers that submit events.                *)
(*                                                                         *)
(* Time is counted in ticks of half a second, the period of the            *)
(* countdown's sleep.  Statements take no time on that scale: the clock    *)
(* advances only while every thread is waiting, and a sleep takes exactly  *)
(* its length.  The monitor's 0.1 s sleep is shorter than a tick and so    *)
(* puts no lower bound on the tick count between two polls.                *)
(* Every read or write of a global by a thread is one step, so threads     *)
(* interleave between statements as Python threads do.                     *)
(*                                                                         *)
(* Strings are sequences of tokens; "_" is a token of its own, so that     *)
(* the f-string of the dedup key is a real concatenation.                  *)
(***************************************************************************)
EXTENDS Integers, Sequences, FiniteSets, TLC

VARIABLES
    module,                  \* which program file runs: "app" or "app_with_html_errors"
    now,                     \* time.time(), in ticks
    door_open,               \* global door_open
    alarm_active,            \* global alarm_active
    timer_active,            \* global timer_active
    timer_duration,          \* global timer_duration (seconds)
    timer_thread,            \* global timer_thread: None or a thread id
    last_logged_door_state,  \* "None", "True" or "False"
    last_logged_alarm_state, \* BOOLEAN
    last_event_timestamps,   \* dict: event_key -> current_time
    event_lock,              \* None or the id of the thread holding the lock
    Setting,                 \* value (a string) of the Setting row with key 'timer_duration'
    EventLog,                \* the EventLog table, in commit order
    broadcasts,              \* payloads handed to broadcast_event / socketio.emit
    emails,                  \* calls of send_alarm_email
    th,                      \* threads: id -> position and locals
    episodes,                \* history: one record per open edge the monitor handled
    accepted,                \* history: submissions that passed the dedup section, and flag resets
    faults,                  \* history: failures of the database, the socket and SMTP so far
    monitor_thread_started,  \* global monitor_thread_started
    monitor_thread_lock,     \* None or the id of the thread holding monitor_thread_lock
    Users,                   \* the usernames of the rows of the User table
    EmailConfig              \* EmailConfig.query.first(): the row, or NoEmailConfig

\* the globals of start_monitoring
Startup == <<monitor_thread_started, monitor_thread_lock>>

\* the tables only the administrative handlers write
Tables == <<Users, EmailConfig>>

vars == <<module, Tables, faults, Startup, now, door_open, alarm_active, timer_active, timer_duration,
          timer_thread, last_logged_door_state, last_logged_alarm_state,
          last_event_timestamps, event_lock, Setting, EventLog, broadcasts,
          emails, th, episodes, accepted>>

\* ---------------------------------------------------------------- bounds
\* the clock stops at MaxTime ticks
MaxTime == 4
\* open edges the sensor produces plus requests the web server receives
MaxInputs == 2
\* calls of start_monitoring
MaxCalls == 3
\* the last tick at which a request arrives while the sensor is live
MaxRequestTime == 0

\* ------------------------------------------------------------- constants
\* time.sleep(0.5) in alarm_timer: one tick
BlinkSleep == 1
\* time_diff < 2.0 in log_event: four ticks
DedupWindow == 4
\* ticks in one second
Ticks(seconds) == 2 * seconds

None == -1
Monitor == 0

Modules == {"app", "app_with_html_errors"}

\* values an administrator has stored in Setting 'timer_duration' (seconds)
Durations == {1, 2}

\* integers whose decimal form int() recognises in the model
ParseRange == -1..30

\* int(value) raises ValueError unless value is the decimal form of an integer
IsInt(value) == \E n \in ParseRange : ToString(n) = value

\* int(value)
int(value) == CHOOSE n \in ParseRange : ToString(n) = value

\* a JSON value of a request body: a number or a string
JsonNumber(n) == [json |-> "number", value |-> ToString(n)]
JsonString(s) == [json |-> "string", value |-> s]

\* str(v) and f'{v}' of a JSON value: the decimal form of a number, the
\* characters of a string
str(v) == v.value

door_open_type == <<"door", "_", "open">>
door_close_type == <<"door", "_", "close">>
alarm_triggered_type == <<"alarm", "_", "triggered">>
test_door_open_type == <<"test", "_", "door", "_", "open">>
setting_changed_type == <<"setting", "_", "changed">>
settings_changed_type == <<"settings", "_", "changed">>
user_created_type == <<"user", "_", "created">>
user_updated_type == <<"user", "_", "updated">>
user_deleted_type == <<"user", "_", "deleted">>

DoorOpened == <<"Door opened">>
DoorClosed == <<"Door closed">>
TestEvent == <<"Test event">>
AlarmDescription(duration) == <<"Alarm triggered after ", ToString(duration), " seconds">>
SettingDescription(value) == <<"Timer duration changed to ", str(value), " seconds">>
AdminUpdated == <<"Admin updated system settings">>
UserCreated(username) == <<"User ", username, " created by admin">>
UserUpdated(username) == <<"User ", username, " permissions updated by admin">>
UserDeleted(username) == <<"User ", username, " deleted by admin">>

\* init_system creates the user 'admin' (lines 95-99)
InitialUsers == {"admin"}

\* inputs of the /api/test-event handler
RequestTypes == {door_open_type, door_close_type, alarm_triggered_type, test_door_open_type}
RequestDescriptions == {DoorOpened, TestEvent}

\* ------------------------------------------------------------- threads
\* the locals of log_event after the commit, before any of them is assigned
NoLocals ==
    [total_events |-> 0, door_open_events |-> 0, door_close_events |-> 0,
     alarm_events |-> 0, timer_set |-> "", door_status |-> "", alarm_status |-> ""]

NewThread(kind, pc) ==
    [kind |-> kind, pc |-> pc, ret |-> "done",
     event_type |-> <<>>, description |-> <<>>, current_time |-> 0,
     res |-> "none", acc |-> 0,
     start_time |-> 0, duration |-> 0, wake |-> 0, episode |-> 0,
     locals |-> NoLocals, catches |-> FALSE]

Threads == DOMAIN th
TimerIds == {t \in Threads : th[t].kind = "timer"}
RequestIds == {t \in Threads : th[t].kind = "request"}
is_alive(t) == th[t].pc \notin {"done", "crashed"}
AliveTimers == {t \in TimerIds : is_alive(t)}
NextId == Cardinality(Threads)

\* inputs consumed so far: open edges, requests and failures
Inputs == Len(episodes) + Cardinality(RequestIds) + faults

Goto(t, pc) == th' = [th EXCEPT ![t].pc = pc]

\* ------------------------------------------------------------- log_event
event_key(event_type, description) == event_type \o <<"_">> \o description

\* lines 205-209: the 2-second rule
TimeDuplicate(key, current_time, timestamps) ==
    /\ key \in DOMAIN timestamps
    /\ current_time - timestamps[key] < DedupWindow

\* the state rule without its alarm_triggered branch
StateDuplicate_NoAlarmRule(event_type, door_state, alarm_state) ==
    \/ event_type = door_open_type /\ door_state = "True"
    \/ event_type = door_close_type /\ door_state = "False"

\* the state rule without its door branches
StateDuplicate_NoDoorRule(event_type, door_state, alarm_state) ==
    event_type = alarm_triggered_type /\ alarm_state

\* lines 212-229: the state rule
StateDuplicate(event_type, door_state, alarm_state) ==
    \/ event_type = door_open_type /\ door_state = "True"
    \/ event_type = door_close_type /\ door_state = "False"
    \/ event_type = alarm_triggered_type /\ alarm_state

\* the section with the timestamp written before the state rule is applied
DedupSection_StampFirst(event_type, description, current_time, door_state, alarm_state, timestamps) ==
    LET key == event_key(event_type, description)
        stamped == [k \in DOMAIN timestamps \cup {key} |->
                       IF k = key THEN current_time ELSE timestamps[k]]
    IN  IF TimeDuplicate(key, current_time, timestamps)
        THEN [res |-> "Deduplicated", door |-> door_state,
              alarm |-> alarm_state, timestamps |-> timestamps]
        ELSE IF StateDuplicate(event_type, door_state, alarm_state)
        THEN [res |-> "Deduplicated", door |-> door_state,
              alarm |-> alarm_state, timestamps |-> stamped]
        ELSE [res |-> "Accepted",
              door |-> IF event_type = door_open_type THEN "True"
                       ELSE IF event_type = door_close_type THEN "False"
                       ELSE door_state,
              alarm |-> IF event_type = alarm_triggered_type THEN TRUE ELSE alarm_state,
              timestamps |-> stamped]

\* lines 199-232: the section under event_lock, as a function of the dedup state
DedupSection(event_type, description, current_time, door_state, alarm_state, timestamps) ==
    LET key == event_key(event_type, description)
        rejected == [res |-> "Deduplicated", door |-> door_state,
                     alarm |-> alarm_state, timestamps |-> timestamps]
    IN  IF TimeDuplicate(key, current_time, timestamps) THEN rejected
        ELSE IF StateDuplicate(event_type, door_state, alarm_state) THEN rejected
        ELSE [res |-> "Accepted",
              door |-> IF event_type = door_open_type THEN "True"
                       ELSE IF event_type = door_close_type THEN "False"
                       ELSE door_state,
              alarm |-> IF event_type = alarm_triggered_type THEN TRUE ELSE alarm_state,
              timestamps |-> [k \in DOMAIN timestamps \cup {key} |->
                                 IF k = key THEN current_time ELSE timestamps[k]]]

\* history entry for the monitor's reset of last_logged_alarm_state (line 147)
AlarmReset ==
    [event_type |-> <<"reset">>, description |-> <<>>, current_time |-> now,
     by |-> Monitor, episode |-> Len(episodes), in_episode |-> door_open]

\* history entry for a submission of thread t that the pipeline accepts now: an
\* event belongs to the episode that is open when it is accepted
Acceptance(t) ==
    [event_type |-> th[t].event_type, description |-> th[t].description,
     current_time |-> th[t].current_time, by |-> t,
     episode |-> Len(episodes), in_episode |-> door_open]

\* does log_event of this program file have the dedup section at all
HasDedup == module = "app_with_html_errors"

\* a thread calls log_event(event_type, description) and will return to ret
CallLogEvent(t, event_type, description, ret) ==
    th' = [th EXCEPT ![t].pc = IF HasDedup THEN "lock" ELSE "persist",
                     ![t].ret = ret,
                     ![t].event_type = event_type,
                     ![t].description = description,
                     ![t].current_time = now,
                     ![t].res = "none",
                     ![t].acc = 0]

\* EventLog.query.filter_by(event_type=...).count() on a table
Count(table, event_type) ==
    Cardinality({i \in 1..Len(table) : table[i].event_type = event_type})

\* lines 254-266: the payload, built from the locals of log_event
Payload(locals, id) ==
    [event |-> id,
     door_status |-> locals.door_status,
     alarm_status |-> locals.alarm_status,
     timer_set |-> locals.timer_set,
     statistics |-> [total_events |-> locals.total_events,
                     door_open_events |-> locals.door_open_events,
                     door_close_events |-> locals.door_close_events,
                     alarm_events |-> locals.alarm_events]]

\* the positions of log_event between the commit and the return
AfterCommit == {"b243", "b244", "b245", "b246", "b249", "b256", "b257", "b269"}

\* what a statement that only assigns a local of log_event leaves alone
LocalsFrame ==
    UNCHANGED <<module, Tables, faults, Startup, now, door_open, alarm_active, timer_active,
                timer_duration, timer_thread, last_logged_door_state,
                last_logged_alarm_state, last_event_timestamps, event_lock, Setting,
                EventLog, broadcasts, emails, episodes, accepted>>

\* log_event clearing alarm_active when it takes the lock
log_event_lock_ClearsAlarm(t) ==
    /\ th[t].pc = "lock"
    /\ event_lock = None
    /\ event_lock' = t
    /\ alarm_active' = FALSE
    /\ th' = [th EXCEPT ![t].pc = "dedup", ![t].current_time = now]
    /\ UNCHANGED <<module, Tables, faults, Startup, now, door_open, timer_active, timer_duration,
                   timer_thread, last_logged_door_state, last_logged_alarm_state,
                   last_event_timestamps, Setting, EventLog, broadcasts, emails,
                   episodes, accepted>>

\* line 198: with event_lock (acquire); line 199: current_time = time.time()
log_event_lock(t) ==
    /\ th[t].pc = "lock"
    /\ event_lock = None
    /\ event_lock' = t
    /\ th' = [th EXCEPT ![t].pc = "dedup", ![t].current_time = now]
    /\ UNCHANGED <<module, Tables, faults, Startup, now, door_open, alarm_active, timer_active, timer_duration,
                   timer_thread, last_logged_door_state, last_logged_alarm_state,
                   last_event_timestamps, Setting, EventLog, broadcasts, emails,
                   episodes, accepted>>

\* lines 200-232: dedup check, flag update, release of event_lock
log_event_dedup(t) ==
    /\ th[t].pc = "dedup"
    /\ event_lock = t
    /\ LET r == DedupSection(th[t].event_type, th[t].description, th[t].current_time,
                             last_logged_door_state, last_logged_alarm_state,
                             last_event_timestamps)
       IN  /\ last_logged_door_state' = r.door
           /\ last_logged_alarm_state' = r.alarm
           /\ last_event_timestamps' = r.timestamps
           /\ IF r.res = "Accepted"
              THEN /\ accepted' = Append(accepted, Acceptance(t))
                   /\ th' = [th EXCEPT ![t].pc = "persist", ![t].acc = Len(accepted) + 1]
              ELSE /\ accepted' = accepted
                   /\ th' = [th EXCEPT ![t].pc = th[t].ret, ![t].res = "Deduplicated"]
    /\ event_lock' = None
    /\ UNCHANGED <<module, Tables, faults, Startup, now, door_open, alarm_active, timer_active, timer_duration,
                   timer_thread, Setting, EventLog, broadcasts, emails, episodes>>

\* lines 234-240: EventLog(...), db.session.add, db.session.commit
log_event_persist(t) ==
    /\ th[t].pc = "persist"
    /\ EventLog' = Append(EventLog,
                          [id |-> Len(EventLog) + 1,
                           event_type |-> th[t].event_type,
                           description |-> th[t].description,
                           timestamp |-> now,
                           by |-> t,
                           kind |-> th[t].kind,
                           acc |-> IF HasDedup THEN th[t].acc ELSE Len(accepted) + 1,
                           current_time |-> th[t].current_time,
                           episode |-> IF HasDedup THEN accepted[th[t].acc].episode
                                       ELSE Len(episodes),
                           in_episode |-> IF HasDedup THEN accepted[th[t].acc].in_episode
                                          ELSE door_open])
    /\ IF HasDedup
       THEN /\ accepted' = accepted
            /\ th' = [th EXCEPT ![t].pc = "b243"]
       ELSE /\ accepted' = Append(accepted, Acceptance(t))
            /\ th' = [th EXCEPT ![t].pc = "b243", ![t].acc = Len(accepted) + 1]
    /\ UNCHANGED <<module, Tables, faults, Startup, now, door_open, alarm_active, timer_active, timer_duration,
                   timer_thread, last_logged_door_state, last_logged_alarm_state,
                   last_event_timestamps, event_lock, Setting, broadcasts, emails,
                   episodes>>

\* line 243: total_events = EventLog.query.count()
log_event_243(t) ==
    /\ th[t].pc = "b243"
    /\ th' = [th EXCEPT ![t].pc = "b244", ![t].locals.total_events = Len(EventLog)]
    /\ LocalsFrame

\* line 244: door_open_events = ...filter_by(event_type='door_open').count()
log_event_244(t) ==
    /\ th[t].pc = "b244"
    /\ th' = [th EXCEPT ![t].pc = "b245",
                        ![t].locals.door_open_events = Count(EventLog, door_open_type)]
    /\ LocalsFrame

\* line 245: door_close_events = ...filter_by(event_type='door_close').count()
log_event_245(t) ==
    /\ th[t].pc = "b245"
    /\ th' = [th EXCEPT ![t].pc = "b246",
                        ![t].locals.door_close_events = Count(EventLog, door_close_type)]
    /\ LocalsFrame

\* line 246: alarm_events = ...filter_by(event_type='alarm_triggered').count()
log_event_246(t) ==
    /\ th[t].pc = "b246"
    /\ th' = [th EXCEPT ![t].pc = "b249",
                        ![t].locals.alarm_events = Count(EventLog, alarm_triggered_type)]
    /\ LocalsFrame

\* lines 249-253: timer_set = timer_setting.value; the query for last_event,
\* whose result the payload here does not carry
log_event_249(t) ==
    /\ th[t].pc = "b249"
    /\ th' = [th EXCEPT ![t].pc = "b256", ![t].locals.timer_set = Setting]
    /\ LocalsFrame

\* line 256: 'door_status': 'Open' if door_open else 'Closed'
log_event_256(t) ==
    /\ th[t].pc = "b256"
    /\ th' = [th EXCEPT ![t].pc = "b257",
                        ![t].locals.door_status = IF door_open THEN "Open" ELSE "Closed"]
    /\ LocalsFrame

\* line 257: 'alarm_status': 'Active' if alarm_active else 'Inactive'
log_event_257(t) ==
    /\ th[t].pc = "b257"
    /\ th' = [th EXCEPT ![t].pc = "b269",
                        ![t].locals.alarm_status = IF alarm_active THEN "Active" ELSE "Inactive"]
    /\ LocalsFrame

\* line 269: broadcast_event(payload); return
log_event_broadcast(t) ==
    /\ th[t].pc = "b269"
    /\ \E i \in 1..Len(EventLog) :
          /\ EventLog[i].by = t
          /\ \A j \in 1..Len(EventLog) : EventLog[j].by = t => j <= i
          /\ broadcasts' = Append(broadcasts, Payload(th[t].locals, EventLog[i].id))
    /\ th' = [th EXCEPT ![t].pc = th[t].ret, ![t].res = "Accepted", ![t].locals = NoLocals]
    /\ UNCHANGED <<module, Tables, faults, Startup, now, door_open, alarm_active, timer_active, timer_duration,
                   timer_thread, last_logged_door_state, last_logged_alarm_state,
                   last_event_timestamps, event_lock, Setting, EventLog, emails,
                   episodes, accepted>>

\* the exception swallowed inside log_event, which returns as after a duplicate
Raise_Swallowed(t, error) ==
    [th EXCEPT ![t].pc = th[t].ret, ![t].res = "Deduplicated", ![t].locals = NoLocals]

\* an exception leaves log_event and reaches its caller: create_user catches
\* it (lines 590-592) and answers; any other thread or request ends with it
Raise(t, error) ==
    [th EXCEPT ![t].pc = IF th[t].catches THEN "done" ELSE "crashed",
               ![t].res = error, ![t].locals = NoLocals]

\* lines 238-240: db.session.add or db.session.commit raises
log_event_persist_fails(t) ==
    /\ th[t].pc = "persist"
    /\ Inputs < MaxInputs
    /\ faults' = faults + 1
    /\ th' = Raise(t, "PersistenceError")
    /\ UNCHANGED <<module, Tables, Startup, now, door_open, alarm_active, timer_active,
                   timer_duration, timer_thread, last_logged_door_state,
                   last_logged_alarm_state, last_event_timestamps, event_lock,
                   Setting, EventLog, broadcasts, emails, episodes, accepted>>

\* broadcast_event (lines 58-63) wraps socketio.emit in try/except; log_event of
\* app.py calls socketio.emit directly (line 190)
BroadcastCatches == module = "app_with_html_errors"

\* line 269 (app.py line 190): socketio.emit raises
log_event_broadcast_fails(t) ==
    /\ th[t].pc = "b269"
    /\ Inputs < MaxInputs
    /\ faults' = faults + 1
    /\ th' = IF BroadcastCatches
             THEN [th EXCEPT ![t].pc = th[t].ret, ![t].res = "Accepted",
                             ![t].locals = NoLocals]
             ELSE Raise(t, "BroadcastError")
    /\ UNCHANGED <<module, Tables, Startup, now, door_open, alarm_active, timer_active,
                   timer_duration, timer_thread, last_logged_door_state,
                   last_logged_alarm_state, last_event_timestamps, event_lock,
                   Setting, EventLog, broadcasts, emails, episodes, accepted>>

\* ------------------------------------------------------------- monitor_door
\* globals the monitor's assignments leave alone
MonitorFrame ==
    UNCHANGED <<module, Tables, faults, Startup, now, timer_duration, timer_thread, last_logged_door_state,
                last_event_timestamps, event_lock, Setting, EventLog, broadcasts,
                emails, accepted>>

\* lines 122-126: the sample reads open while door_open is False; door_open = True
monitor_door_open ==
    /\ th[Monitor].pc = "poll"
    /\ \E door_is_open \in BOOLEAN :
          /\ door_is_open /\ ~door_open
          /\ Inputs < MaxInputs
          /\ door_open' = TRUE
    /\ episodes' = Append(episodes, [open |-> now, duration |-> timer_duration, close |-> None])
    /\ Goto(Monitor, "m127")
    /\ UNCHANGED <<alarm_active, timer_active, last_logged_alarm_state>>
    /\ MonitorFrame

\* line 127: alarm_active = False
monitor_door_127 ==
    /\ th[Monitor].pc = "m127"
    /\ alarm_active' = FALSE
    /\ Goto(Monitor, "m128")
    /\ UNCHANGED <<door_open, timer_active, last_logged_alarm_state, episodes>>
    /\ MonitorFrame

\* line 128: timer_active = True
monitor_door_128 ==
    /\ th[Monitor].pc = "m128"
    /\ timer_active' = TRUE
    /\ Goto(Monitor, "m132")
    /\ UNCHANGED <<door_open, alarm_active, last_logged_alarm_state, episodes>>
    /\ MonitorFrame

\* lines 131-133: timer_duration = int(timer_setting.value); a ValueError of
\* int() is not caught anywhere in monitor_door and ends the thread
monitor_door_132 ==
    /\ th[Monitor].pc = "m132"
    /\ IF IsInt(Setting)
       THEN /\ timer_duration' = int(Setting)
            /\ episodes' = [episodes EXCEPT ![Len(episodes)].duration = int(Setting)]
            /\ Goto(Monitor, "m135")
       ELSE /\ Goto(Monitor, "crashed")
            /\ UNCHANGED <<timer_duration, episodes>>
    /\ UNCHANGED <<module, Tables, faults, Startup, now, door_open, alarm_active, timer_active, timer_thread,
                   last_logged_door_state, last_logged_alarm_state,
                   last_event_timestamps, event_lock, Setting, EventLog, broadcasts,
                   emails, accepted>>

\* line 135: log_event('door_open', 'Door opened')
monitor_door_135 ==
    /\ th[Monitor].pc = "m135"
    /\ CallLogEvent(Monitor, door_open_type, DoorOpened, "m136")
    /\ UNCHANGED <<door_open, alarm_active, timer_active, last_logged_alarm_state, episodes>>
    /\ MonitorFrame

\* the join left out: the monitor never waits for the previous countdown
JoinReturns_NoJoin(thread) == TRUE

\* lines 136-137: timer_thread.join() returns once the previous countdown is dead
JoinReturns(thread) == IF thread = None THEN TRUE ELSE ~is_alive(thread)

\* lines 136-139: join the previous countdown, create and start the new one;
\* line 153: sleep, next sample
monitor_door_136 ==
    /\ th[Monitor].pc = "m136"
    /\ JoinReturns(timer_thread)
    /\ timer_thread' = NextId
    /\ th' = [t \in Threads \cup {NextId} |->
                IF t = NextId
                THEN [NewThread("timer", "t157") EXCEPT !.duration = timer_duration,
                                                        !.episode = Len(episodes)]
                ELSE IF t = Monitor THEN [th[t] EXCEPT !.pc = "poll"]
                ELSE th[t]]
    /\ UNCHANGED <<module, Tables, faults, Startup, now, door_open, alarm_active, timer_active, timer_duration,
                   last_logged_door_state, last_logged_alarm_state,
                   last_event_timestamps, event_lock, Setting, EventLog, broadcasts,
                   emails, episodes, accepted>>

\* lines 122, 140-142: the sample reads closed while door_open is True; door_open = False
monitor_door_close ==
    /\ th[Monitor].pc = "poll"
    /\ \E door_is_open \in BOOLEAN :
          /\ ~door_is_open /\ door_open
          /\ door_open' = FALSE
    /\ episodes' = [episodes EXCEPT ![Len(episodes)].close = now]
    /\ Goto(Monitor, "m143")
    /\ UNCHANGED <<alarm_active, timer_active, last_logged_alarm_state>>
    /\ MonitorFrame

\* line 143: alarm_active = False
monitor_door_143 ==
    /\ th[Monitor].pc = "m143"
    /\ alarm_active' = FALSE
    /\ Goto(Monitor, "m144")
    /\ UNCHANGED <<door_open, timer_active, last_logged_alarm_state, episodes>>
    /\ MonitorFrame

\* line 144: timer_active = False
monitor_door_144 ==
    /\ th[Monitor].pc = "m144"
    /\ timer_active' = FALSE
    /\ Goto(Monitor, IF HasDedup THEN "m147" ELSE "m152")
    /\ UNCHANGED <<door_open, alarm_active, last_logged_alarm_state, episodes>>
    /\ MonitorFrame

\* line 147: last_logged_alarm_state = False (outside event_lock)
monitor_door_147 ==
    /\ th[Monitor].pc = "m147"
    /\ last_logged_alarm_state' = FALSE
    /\ accepted' = Append(accepted, AlarmReset)
    /\ Goto(Monitor, "m152")
    /\ UNCHANGED <<module, Tables, faults, Startup, now, door_open, alarm_active, timer_active, timer_duration,
                   timer_thread, last_logged_door_state, last_event_timestamps,
                   event_lock, Setting, EventLog, broadcasts, emails, episodes>>

\* line 152: log_event('door_close', 'Door closed'); line 153: sleep, next sample
monitor_door_152 ==
    /\ th[Monitor].pc = "m152"
    /\ CallLogEvent(Monitor, door_close_type, DoorClosed, "poll")
    /\ UNCHANGED <<door_open, alarm_active, timer_active, last_logged_alarm_state, episodes>>
    /\ MonitorFrame

\* ------------------------------------------------------------- send_alarm_email
\* EmailConfig.query.first(): no row, or a row; a field is TRUE when it is truthy
NoEmailConfig ==
    [present |-> FALSE, is_configured |-> FALSE, sender_email |-> FALSE,
     app_password |-> FALSE, recipient_emails |-> FALSE]

EmailConfigRow(is_configured, sender_email, app_password, recipient_emails) ==
    [present |-> TRUE, is_configured |-> is_configured, sender_email |-> sender_email,
     app_password |-> app_password, recipient_emails |-> recipient_emails]

\* the row admin_settings writes
ConfiguredEmail == EmailConfigRow(TRUE, TRUE, TRUE, TRUE)

EmailConfigs ==
    {NoEmailConfig, ConfiguredEmail, EmailConfigRow(FALSE, TRUE, TRUE, TRUE),
     EmailConfigRow(TRUE, FALSE, TRUE, TRUE), EmailConfigRow(TRUE, TRUE, FALSE, TRUE),
     EmailConfigRow(TRUE, TRUE, TRUE, FALSE)}

\* what smtplib does: succeeds, or raises an exception of one of these classes
Transports == {"ok", "SMTPAuthenticationError", "SMTPException", "OSError"}

\* the classes an exception is an instance of
Bases(error) ==
    IF error = "SMTPAuthenticationError"
    THEN {"SMTPAuthenticationError", "SMTPException", "OSError", "Exception"}
    ELSE IF error = "SMTPException" THEN {"SMTPException", "OSError", "Exception"}
    ELSE {"OSError", "Exception"}

\* the handlers without the last clause
ExceptClauses_SMTPOnly == {"SMTPAuthenticationError", "SMTPException"}

\* lines 334-342: the except clauses of send_alarm_email
ExceptClauses == {"SMTPAuthenticationError", "SMTPException", "Exception"}

\* the early returns with only the test for the row
ConfigUsable_RowOnly(config) == config.present

\* lines 276-287: the three early returns of send_alarm_email
ConfigUsable(config) ==
    /\ config.present
    /\ config.is_configured
    /\ config.sender_email /\ config.app_password /\ config.recipient_emails

\* lines 271-343: is smtplib invoked, and how does the call end
send_alarm_email(config, transport) ==
    IF ~ConfigUsable(config) THEN [invoked |-> FALSE, result |-> "skipped"]
    ELSE IF transport = "ok" THEN [invoked |-> TRUE, result |-> "sent"]
    ELSE IF Bases(transport) \cap ExceptClauses # {} THEN [invoked |-> TRUE, result |-> "logged"]
    ELSE [invoked |-> TRUE, result |-> "raised"]

\* ------------------------------------------------------------- alarm_timer
\* everything but the flags the countdown writes and its own thread record
TimerFrame ==
    UNCHANGED <<module, Tables, faults, Startup, now, door_open, timer_duration, timer_thread,
                last_logged_door_state, last_logged_alarm_state,
                last_event_timestamps, event_lock, Setting, EventLog, broadcasts,
                episodes, accepted>>

\* line 157: start_time = time.time()
alarm_timer_157(t) ==
    /\ th[t].pc = "t157"
    /\ th' = [th EXCEPT ![t].pc = "t161", ![t].start_time = now]
    /\ UNCHANGED <<alarm_active, timer_active, emails>>
    /\ TimerFrame

\* the loop test reading the stored setting instead of the argument
LoopContinues_LiveSetting(t) ==
    /\ timer_active
    /\ now - th[t].start_time
          < Ticks(IF IsInt(Setting) THEN int(Setting) ELSE th[t].duration)

\* line 161: while timer_active and (time.time() - start_time) < duration
LoopContinues(t) == timer_active /\ now - th[t].start_time < Ticks(th[t].duration)

alarm_timer_161(t) ==
    /\ th[t].pc = "t161"
    /\ Goto(t, IF LoopContinues(t) THEN "t162" ELSE "t174")
    /\ UNCHANGED <<alarm_active, timer_active, emails>>
    /\ TimerFrame

\* lines 162 and 167: "not timer_active", the first operand of the break test
alarm_timer_break_timer(t) ==
    /\ th[t].pc \in {"t162", "t167"}
    /\ Goto(t, IF ~timer_active THEN "t174"
               ELSE IF th[t].pc = "t162" THEN "t162d" ELSE "t167d")
    /\ UNCHANGED <<alarm_active, timer_active, emails>>
    /\ TimerFrame

\* lines 162-166 and 167-171: "not door_open", the second operand; then time.sleep(0.5)
alarm_timer_break_door(t) ==
    /\ th[t].pc \in {"t162d", "t167d"}
    /\ IF ~door_open
       THEN Goto(t, "t174")
       ELSE th' = [th EXCEPT ![t].pc = IF th[t].pc = "t162d" THEN "t166" ELSE "t171",
                             ![t].wake = now + BlinkSleep]
    /\ UNCHANGED <<alarm_active, timer_active, emails>>
    /\ TimerFrame

\* lines 166 and 171: time.sleep(0.5) returns
alarm_timer_wake(t) ==
    /\ th[t].pc \in {"t166", "t171"}
    /\ now >= th[t].wake
    /\ Goto(t, IF th[t].pc = "t166" THEN "t167" ELSE "t161")
    /\ UNCHANGED <<alarm_active, timer_active, emails>>
    /\ TimerFrame

\* line 174: "timer_active", the first operand of the expiry test
alarm_timer_174(t) ==
    /\ th[t].pc = "t174"
    /\ Goto(t, IF timer_active THEN "t174d" ELSE "t186")
    /\ UNCHANGED <<alarm_active, timer_active, emails>>
    /\ TimerFrame

\* line 174: "door_open", the second operand of the expiry test
alarm_timer_174_door(t) ==
    /\ th[t].pc = "t174d"
    /\ Goto(t, IF door_open THEN "t176" ELSE "t186")
    /\ UNCHANGED <<alarm_active, timer_active, emails>>
    /\ TimerFrame

\* line 176: timer_active = False
alarm_timer_176(t) ==
    /\ th[t].pc = "t176"
    /\ timer_active' = FALSE
    /\ Goto(t, "t177")
    /\ UNCHANGED <<alarm_active, emails>>
    /\ TimerFrame

\* line 177: alarm_active = True
alarm_timer_177(t) ==
    /\ th[t].pc = "t177"
    /\ alarm_active' = TRUE
    /\ Goto(t, "t182")
    /\ UNCHANGED <<timer_active, emails>>
    /\ TimerFrame

\* line 182: log_event('alarm_triggered', f'Alarm triggered after {duration} seconds')
alarm_timer_182(t) ==
    /\ th[t].pc = "t182"
    /\ CallLogEvent(t, alarm_triggered_type, AlarmDescription(th[t].duration), "t183")
    /\ UNCHANGED <<alarm_active, timer_active, emails>>
    /\ TimerFrame

\* line 183, lines 275-287: send_alarm_email(duration) reads the EmailConfig row
\* and returns when it is unusable; otherwise it composes the message and
\* calls smtplib.SMTP (line 322)
alarm_timer_183(t) ==
    /\ th[t].pc = "t183"
    /\ LET usable == send_alarm_email(EmailConfig, "ok").invoked
       IN  /\ emails' = Append(emails, [by |-> t, duration |-> th[t].duration,
                                        episode |-> Len(episodes), config |-> EmailConfig,
                                        invoked |-> usable,
                                        transport |-> "none",
                                        result |-> IF usable THEN "pending" ELSE "skipped"])
           /\ Goto(t, IF usable THEN "t322" ELSE "done")
    /\ UNCHANGED <<module, Tables, faults, Startup, now, door_open, alarm_active, timer_active,
                   timer_duration, timer_thread, last_logged_door_state,
                   last_logged_alarm_state, last_event_timestamps, event_lock,
                   Setting, EventLog, broadcasts, episodes, accepted>>

\* the call of send_alarm_email that thread t has made
EmailOf(t) == CHOOSE k \in 1..Len(emails) : emails[k].by = t

\* lines 322-332: the SMTP server answers, with success or with an exception;
\* lines 334-342 catch it or not; the thread ends
alarm_timer_322(t, transport) ==
    /\ th[t].pc = "t322"
    /\ transport # "ok" => Inputs < MaxInputs
    /\ faults' = IF transport # "ok" THEN faults + 1 ELSE faults
    /\ LET sent == send_alarm_email(emails[EmailOf(t)].config, transport)
       IN  /\ emails' = [emails EXCEPT ![EmailOf(t)].transport = transport,
                                       ![EmailOf(t)].result = sent.result]
           /\ Goto(t, IF sent.result = "raised" THEN "crashed" ELSE "done")
    /\ UNCHANGED <<module, Tables, Startup, now, door_open, alarm_active, timer_active,
                   timer_duration, timer_thread, last_logged_door_state,
                   last_logged_alarm_state, last_event_timestamps, event_lock,
                   Setting, EventLog, broadcasts, episodes, accepted>>

\* line 186: timer_active = False
alarm_timer_186(t) ==
    /\ th[t].pc = "t186"
    /\ timer_active' = FALSE
    /\ Goto(t, "t187")
    /\ UNCHANGED <<alarm_active, emails>>
    /\ TimerFrame

\* line 187: alarm_active = False; the thread ends
alarm_timer_187(t) ==
    /\ th[t].pc = "t187"
    /\ alarm_active' = FALSE
    /\ Goto(t, "done")
    /\ UNCHANGED <<timer_active, emails>>
    /\ TimerFrame

\* ------------------------------------------------------------- requests
\* lines 1607-1612: /api/test-event calls log_event(event_type, description)
test_event(event_type, description) ==
    /\ Inputs < MaxInputs
    /\ th' = [t \in Threads \cup {NextId} |->
                IF t = NextId
                THEN [NewThread("request", IF HasDedup THEN "lock" ELSE "persist")
                        EXCEPT !.event_type = event_type,
                               !.description = description,
                               !.current_time = now]
                ELSE th[t]]
    /\ UNCHANGED <<module, Tables, faults, Startup, now, door_open, alarm_active, timer_active, timer_duration,
                   timer_thread, last_logged_door_state, last_logged_alarm_state,
                   last_event_timestamps, event_lock, Setting, EventLog, broadcasts,
                   emails, episodes, accepted>>

\* values of 'timer_duration' in the body of a POST /api/settings
SettingInputs == {JsonNumber(1), JsonNumber(0), JsonString("abc")}

\* lines 736-742: update_settings stores str(data['timer_duration']), commits and
\* calls log_event('setting_changed', ...)
update_settings(value) ==
    /\ Inputs < MaxInputs
    /\ Setting' = str(value)
    /\ th' = [t \in Threads \cup {NextId} |->
                IF t = NextId
                THEN [NewThread("request", IF HasDedup THEN "lock" ELSE "persist")
                        EXCEPT !.event_type = setting_changed_type,
                               !.description = SettingDescription(value),
                               !.current_time = now]
                ELSE th[t]]
    /\ UNCHANGED <<module, Tables, faults, Startup, now, door_open, alarm_active, timer_active, timer_duration,
                   timer_thread, last_logged_door_state, last_logged_alarm_state,
                   last_event_timestamps, event_lock, EventLog, broadcasts,
                   emails, episodes, accepted>>

\* a request thread that is about to call log_event(event_type, description)
Submitting(event_type, description) ==
    [NewThread("request", IF HasDedup THEN "lock" ELSE "persist")
       EXCEPT !.event_type = event_type, !.description = description,
              !.current_time = now]

\* a request thread whose handler has answered without calling log_event
Answered == NewThread("request", "done")

\* the web server runs a handler in a thread of its own
Handle(request) == th' = [t \in Threads \cup {NextId} |-> IF t = NextId THEN request ELSE th[t]]

\* what a handler leaves alone besides the tables it writes
HandlerFrame ==
    UNCHANGED <<module, faults, Startup, now, door_open, alarm_active, timer_active,
                timer_duration, timer_thread, last_logged_door_state,
                last_logged_alarm_state, last_event_timestamps, event_lock,
                EventLog, broadcasts, emails, episodes, accepted>>

\* usernames of a POST /admin/create-user
Usernames == {"alice", "bob"}

\* the users a PUT or DELETE /api/users/<user_id> names
ManagedUsers == InitialUsers \cup Usernames

\* line 560: len(username) < 4
MinUsername == 4

\* lines 560-561: a missing or short username is a validation error; the
\* password and the permissions of the form are taken as valid
UsernameValid(username) == Len(username) >= MinUsername

\* lines 560-594: create_user flashes the validation error or 'already
\* exists' and changes nothing; otherwise it commits the user and calls
\* log_event('user_created', ...) inside try/except
create_user(username) ==
    /\ Inputs < MaxInputs
    /\ IF ~UsernameValid(username) \/ username \in Users
       THEN /\ Handle(Answered)
            /\ Users' = Users
       ELSE /\ Handle([Submitting(user_created_type, UserCreated(username))
                         EXCEPT !.catches = TRUE])
            /\ Users' = Users \cup {username}
    /\ UNCHANGED <<EmailConfig, Setting>>
    /\ HandlerFrame

\* lines 637-656: manage_user answers 404 for an unknown user and 403 for the
\* deletion of 'admin'; PUT commits the permissions and calls
\* log_event('user_updated', ...), DELETE deletes the row and calls
\* log_event('user_deleted', ...)
manage_user(method, username) ==
    /\ Inputs < MaxInputs
    /\ IF username \notin Users \/ (method = "DELETE" /\ username = "admin")
       THEN /\ Handle(Answered)
            /\ Users' = Users
       ELSE IF method = "PUT"
       THEN /\ Handle(Submitting(user_updated_type, UserUpdated(username)))
            /\ Users' = Users
       ELSE /\ Handle(Submitting(user_deleted_type, UserDeleted(username)))
            /\ Users' = Users \ {username}
    /\ UNCHANGED <<EmailConfig, Setting>>
    /\ HandlerFrame

\* IntegerField with DataRequired (line 356): the form validates when the
\* number is not zero; the other fields of the form are taken as valid
FormValid(seconds) == seconds # 0

\* values of the field timer_duration of AdminSettingsForm
FormDurations == {1, 0, -1}

\* lines 603-627: admin_settings writes the EmailConfig row with
\* is_configured = True and str(form.timer_duration.data), commits and calls
\* log_event('settings_changed', ...); an invalid form changes nothing
admin_settings(seconds) ==
    /\ Inputs < MaxInputs
    /\ IF FormValid(seconds)
       THEN /\ Handle(Submitting(settings_changed_type, AdminUpdated))
            /\ EmailConfig' = ConfiguredEmail
            /\ Setting' = ToString(seconds)
       ELSE /\ Handle(Answered)
            /\ UNCHANGED <<EmailConfig, Setting>>
    /\ UNCHANGED Users
    /\ HandlerFrame

\* lines 469-497: admin_onboarding redirects when the row is configured;
\* otherwise a valid form writes the row and the setting, and no event is
\* submitted
admin_onboarding(seconds) ==
    /\ Inputs < MaxInputs
    /\ Handle(Answered)
    /\ IF ~(EmailConfig.present /\ EmailConfig.is_configured) /\ FormValid(seconds)
       THEN /\ EmailConfig' = ConfiguredEmail
            /\ Setting' = ToString(seconds)
       ELSE UNCHANGED <<EmailConfig, Setting>>
    /\ UNCHANGED Users
    /\ HandlerFrame

\* ------------------------------------------------------------- start_monitoring
\* start_monitoring of app_with_html_errors.py (lines 1055-1065) takes
\* monitor_thread_lock and tests monitor_thread_started; start_monitoring of
\* app.py (lines 976-979) creates the thread unconditionally
StartGuarded == module = "app_with_html_errors"

CallerIds == {t \in Threads : th[t].kind = "caller"}
MonitorIds == {t \in Threads : th[t].kind = "monitor"}

\* everything but the threads and the two globals of start_monitoring
StartFrame ==
    UNCHANGED <<module, Tables, faults, now, door_open, alarm_active, timer_active,
                timer_duration, timer_thread, last_logged_door_state,
                last_logged_alarm_state, last_event_timestamps, event_lock,
                Setting, EventLog, broadcasts, emails, episodes, accepted>>

\* some thread calls start_monitoring()
start_monitoring ==
    /\ Cardinality(CallerIds) < MaxCalls
    /\ th' = [t \in Threads \cup {NextId} |->
                IF t = NextId
                THEN NewThread("caller", IF StartGuarded THEN "s1057" ELSE "s1059")
                ELSE th[t]]
    /\ UNCHANGED Startup
    /\ StartFrame

\* line 1057: with monitor_thread_lock (acquire)
start_monitoring_1057(t) ==
    /\ th[t].pc = "s1057"
    /\ monitor_thread_lock = None
    /\ monitor_thread_lock' = t
    /\ Goto(t, "s1058")
    /\ UNCHANGED monitor_thread_started
    /\ StartFrame

\* line 1058: if not monitor_thread_started
start_monitoring_1058(t) ==
    /\ th[t].pc = "s1058"
    /\ Goto(t, IF ~monitor_thread_started THEN "s1059" ELSE "s1065")
    /\ UNCHANGED Startup
    /\ StartFrame

\* lines 1059-1061 (app.py lines 977-979): create and start the monitor thread
start_monitoring_1059(t) ==
    /\ th[t].pc = "s1059"
    /\ th' = [u \in Threads \cup {NextId} |->
                IF u = NextId THEN NewThread("monitor", "poll")
                ELSE IF u = t THEN [th[t] EXCEPT !.pc = IF StartGuarded THEN "s1062" ELSE "done"]
                ELSE th[u]]
    /\ UNCHANGED Startup
    /\ StartFrame

\* line 1062: monitor_thread_started = True
start_monitoring_1062(t) ==
    /\ th[t].pc = "s1062"
    /\ monitor_thread_started' = TRUE
    /\ Goto(t, "s1065")
    /\ UNCHANGED monitor_thread_lock
    /\ StartFrame

\* line 1065: end of the with block (release); return
start_monitoring_1065(t) ==
    /\ th[t].pc = "s1065"
    /\ monitor_thread_lock' = None
    /\ Goto(t, "done")
    /\ UNCHANGED monitor_thread_started
    /\ StartFrame

\* ------------------------------------------------------------- time
\* a thread that lets time pass: the monitor between two samples or blocked in
\* join, a countdown inside time.sleep or waiting for the SMTP server, a thread
\* that has ended or died
Waiting(t) ==
    \/ th[t].pc \in {"poll", "done", "crashed", "t322"}
    \/ th[t].pc \in {"t166", "t171"} /\ now < th[t].wake
    \/ th[t].pc = "m136" /\ ~JoinReturns(timer_thread)

\* statements run much faster than the half-second tick: the clock advances
\* only when every thread is waiting
Tick ==
    /\ now < MaxTime
    /\ \A t \in Threads : Waiting(t)
    /\ now' = now + 1
    /\ UNCHANGED <<module, Tables, faults, Startup, door_open, alarm_active, timer_active, timer_duration,
                   timer_thread, last_logged_door_state, last_logged_alarm_state,
                   last_event_timestamps, event_lock, Setting, EventLog, broadcasts,
                   emails, th, episodes, accepted>>

\* ------------------------------------------------------------- specification
\* lines 76-86 and init_system: the globals and the tables
InitGlobals ==
    /\ now = 0
    /\ door_open = FALSE
    /\ alarm_active = FALSE
    /\ timer_active = FALSE
    /\ timer_duration = 30
    /\ timer_thread = None
    /\ last_logged_door_state = "None"
    /\ last_logged_alarm_state = FALSE
    /\ last_event_timestamps = <<>>
    /\ event_lock = None
    /\ Setting \in {ToString(d) : d \in Durations}
    /\ EventLog = <<>>
    /\ broadcasts = <<>>
    /\ emails = <<>>
    /\ episodes = <<>>
    /\ accepted = <<>>
    /\ faults = 0
    /\ monitor_thread_lock = None
    /\ Users = InitialUsers

\* the state when start_monitoring has run once
InitState ==
    /\ InitGlobals
    /\ th = [t \in {Monitor} |-> NewThread("monitor", "poll")]
    /\ monitor_thread_started = TRUE

\* the state before the first call of start_monitoring, in either program file
InitStart ==
    /\ module \in Modules
    /\ EmailConfig = NoEmailConfig
    /\ InitGlobals
    /\ th = <<>>
    /\ monitor_thread_started = FALSE

\* app_with_html_errors.py with the EmailConfig row an administrator has completed
Init == module = "app_with_html_errors" /\ EmailConfig = ConfiguredEmail /\ InitState

\* either program file, with that row
InitAll == module \in Modules /\ EmailConfig = ConfiguredEmail /\ InitState

\* app_with_html_errors.py with any EmailConfig row, or none
InitConfig ==
    module = "app_with_html_errors" /\ EmailConfig \in EmailConfigs /\ InitState

\* the steps of the monitor thread
MonitorNext ==
    \/ monitor_door_open
    \/ monitor_door_127
    \/ monitor_door_128
    \/ monitor_door_132
    \/ monitor_door_135
    \/ monitor_door_136
    \/ monitor_door_close
    \/ monitor_door_143
    \/ monitor_door_144
    \/ monitor_door_147
    \/ monitor_door_152

\* the steps of countdown thread t but the answer of the SMTP server
TimerNext(t) ==
    \/ alarm_timer_157(t)
    \/ alarm_timer_161(t)
    \/ alarm_timer_break_timer(t)
    \/ alarm_timer_break_door(t)
    \/ alarm_timer_wake(t)
    \/ alarm_timer_174(t)
    \/ alarm_timer_174_door(t)
    \/ alarm_timer_176(t)
    \/ alarm_timer_177(t)
    \/ alarm_timer_182(t)
    \/ alarm_timer_183(t)
    \/ alarm_timer_186(t)
    \/ alarm_timer_187(t)

\* the steps of thread t inside log_event
LogEventNext(t) ==
    \/ log_event_lock(t)
    \/ log_event_dedup(t)
    \/ log_event_persist(t)
    \/ log_event_243(t)
    \/ log_event_244(t)
    \/ log_event_245(t)
    \/ log_event_246(t)
    \/ log_event_249(t)
    \/ log_event_256(t)
    \/ log_event_257(t)
    \/ log_event_broadcast(t)

\* a statement of some thread: every step but the sensor's edges, the answer
\* of the SMTP server and the clock
ThreadStep ==
    \/ monitor_door_127
    \/ monitor_door_128
    \/ monitor_door_132
    \/ monitor_door_135
    \/ monitor_door_136
    \/ monitor_door_143
    \/ monitor_door_144
    \/ monitor_door_147
    \/ monitor_door_152
    \/ \E t \in TimerIds : TimerNext(t)
    \/ \E t \in Threads : LogEventNext(t)

\* the sensor, the monitor, the countdowns and log_event, with a working
\* database and socket and an SMTP server that accepts the message
NextDoor ==
    \/ MonitorNext
    \/ \E t \in TimerIds : TimerNext(t) \/ alarm_timer_322(t, "ok")
    \/ \E t \in Threads : LogEventNext(t)
    \/ Tick

\* the program of app_with_html_errors.py and its door, with no request
SpecDoor == Init /\ [][NextDoor]_vars

\* a thread that can run does run and time advances up to MaxTime; whether
\* the SMTP server answers is not up to the program
SpecLive == Init /\ [][NextDoor]_vars /\ WF_vars(ThreadStep) /\ WF_vars(Tick)

\* requests reach the web server during the first ticks
Early == now <= MaxRequestTime

\* the program with an administrator who posts to /api/test-event
Next ==
    \/ NextDoor
    \/ /\ Early
       /\ \E event_type \in RequestTypes, description \in RequestDescriptions :
             test_event(event_type, description)

Spec == Init /\ [][Next]_vars

\* requests that store a usable timer setting or none: update_settings,
\* admin_settings, create_user, manage_user
AdminRequests ==
    \/ \E value \in {JsonNumber(1), JsonString("abc")} : update_settings(value)
    \/ \E seconds \in {1, 0} : admin_settings(seconds)
    \/ \E username \in Usernames : create_user(username)
    \/ \E method \in {"PUT", "DELETE"}, username \in ManagedUsers : manage_user(method, username)

\* the program with an administrator who manages the settings and the users
NextAdmin ==
    \/ NextDoor
    \/ Early /\ AdminRequests

SpecAdmin == Init /\ [][NextAdmin]_vars

\* every request handler that submits an event or stores the timer setting,
\* with every input, at any time
Requests ==
    \/ \E event_type \in RequestTypes, description \in RequestDescriptions :
          test_event(event_type, description)
    \/ \E value \in SettingInputs : update_settings(value)
    \/ \E seconds \in FormDurations :
          admin_settings(seconds) \/ admin_onboarding(seconds)
    \/ \E username \in Usernames : create_user(username)
    \/ \E method \in {"PUT", "DELETE"}, username \in ManagedUsers : manage_user(method, username)

\* the web server while the door stays closed
NextRequests ==
    \/ Requests
    \/ \E t \in Threads : LogEventNext(t)
    \/ Tick

\* app_with_html_errors.py
SpecRequests == Init /\ [][NextRequests]_vars

\* either program file: app.py or app_with_html_errors.py
SpecAll == InitAll /\ [][NextRequests]_vars

\* requests whose log_event can fail: create_user catches the exception, the
\* other handlers end with it
FaultRequests ==
    \/ create_user("alice")
    \/ test_event(door_open_type, TestEvent)
    \/ update_settings(JsonNumber(1))
    \/ admin_settings(1)
    \/ manage_user("PUT", "admin")

\* the program with a database, a socket and an SMTP server that can fail
NextFaults ==
    \/ MonitorNext
    \/ Early /\ FaultRequests
    \/ \E t \in TimerIds : TimerNext(t)
    \/ \E t \in TimerIds, transport \in Transports : alarm_timer_322(t, transport)
    \/ \E t \in Threads :
          LogEventNext(t) \/ log_event_persist_fails(t) \/ log_event_broadcast_fails(t)
    \/ Tick

SpecFaults == InitAll /\ [][NextFaults]_vars

\* the program with an administrator who posts the onboarding form
NextConfig ==
    \/ NextDoor
    \/ Early /\ \E seconds \in {1, 0} : admin_onboarding(seconds)

\* any EmailConfig row, or none, when the program starts
SpecConfig == InitConfig /\ [][NextConfig]_vars

\* bodies of POST /api/test-event whose event_type and description are free
\* text: 'door' and 'door_open', 'Door opened' and 'open_Door opened'
KeyTypes == {<<"door">>, door_open_type}
KeyDescriptions == {DoorOpened, <<"open", "_", "Door opened">>}

\* the program with an administrator who posts free text to /api/test-event
NextKeys ==
    \/ NextDoor
    \/ /\ Early
       /\ \E event_type \in KeyTypes, description \in KeyDescriptions :
             test_event(event_type, description)

SpecKeys == Init /\ [][NextKeys]_vars

\* threads calling start_monitoring; the monitor threads they create do not
\* run here
NextStart ==
    \/ start_monitoring
    \/ \E t \in CallerIds :
          \/ start_monitoring_1057(t)
          \/ start_monitoring_1058(t)
          \/ start_monitoring_1059(t)
          \/ start_monitoring_1062(t)
          \/ start_monitoring_1065(t)

SpecStart == InitStart /\ [][NextStart]_vars

\* ------------------------------------------------------------- claims
\* C1: in every reachable state alarm_active and timer_active are not both true.
C1_AlarmAndTimerExclusive == ~(alarm_active /\ timer_active)

\* alarm_triggered rows of countdown threads that were accepted while episode e
\* was open
AlarmsIn(e) ==
    {i \in 1..Len(EventLog) :
        /\ EventLog[i].event_type = alarm_triggered_type
        /\ EventLog[i].kind = "timer"
        /\ EventLog[i].episode = e
        /\ EventLog[i].in_episode}

\* C2: for every episode (open edge to the next close edge) at most one
\* alarm_triggered event issued by a countdown thread is recorded.
C2_AtMostOneAlarmPerEpisode ==
    \A e \in 1..Len(episodes) : Cardinality(AlarmsIn(e)) <= 1

\* C2 witness: two countdowns submitted alarm_triggered in the same episode;
\* one is in the log, the other was rejected.
C2_Witness ==
    \E t1, t2 \in TimerIds :
        /\ t1 # t2
        /\ door_open
        /\ \E i \in AlarmsIn(Len(episodes)) : EventLog[i].by = t1
        /\ th[t2].event_type = alarm_triggered_type
        /\ th[t2].res = "Deduplicated"

\* C3: an alarm_triggered event is recorded in an episode only when the door
\* has been open, counted from that episode's open edge, for the configured
\* duration.
C3_AlarmOnlyAfterDuration ==
    \A e \in 1..Len(episodes) : \A i \in AlarmsIn(e) :
        EventLog[i].current_time - episodes[e].open >= Ticks(episodes[e].duration)

\* C4: an episode whose close edge came less than the configured duration
\* after its open edge has no alarm_triggered event.
C4_NoAlarmWhenClosedEarly ==
    \A e \in 1..Len(episodes) :
        (/\ episodes[e].close # None
         /\ episodes[e].close - episodes[e].open < Ticks(episodes[e].duration))
        => AlarmsIn(e) = {}

\* C5, as the state a run must end in when the sensor keeps reading open: once
\* the countdown started for the current episode has ended and no close edge
\* has been handled, an alarm_triggered event of this episode is in the log
\* and the notification dispatcher has been called exactly once in it.  Only
\* runs without requests are considered, so that no submission from outside
\* the monitor and the countdowns is involved.
C5_AlarmRaisedWhenDoorStaysOpen ==
    \A t \in TimerIds :
        (/\ RequestIds = {}
         /\ th[t].episode = Len(episodes)
         /\ th[t].pc = "done"
         /\ door_open
         /\ th[Monitor].pc = "poll")
        => /\ AlarmsIn(Len(episodes)) # {}
           /\ Cardinality({i \in 1..Len(emails) : emails[i].episode = Len(episodes)}) = 1

\* C6: at most one countdown thread is alive at any time.
C6_AtMostOneCountdownAlive == Cardinality(AliveTimers) <= 1

\* C6 witness: the monitor is blocked in join on a countdown that is still alive.
C6_Witness ==
    /\ th[Monitor].pc = "m136"
    /\ timer_thread # None
    /\ is_alive(timer_thread)

\* C7: two persisted events with the same (event_type, description) were
\* never submitted within 2 seconds of each other.
C7_DedupIdempotence ==
    \A i, j \in 1..Len(EventLog) :
        (/\ i < j
         /\ EventLog[i].event_type = EventLog[j].event_type
         /\ EventLog[i].description = EventLog[j].description)
        => \/ EventLog[j].current_time - EventLog[i].current_time >= DedupWindow
           \/ EventLog[i].current_time - EventLog[j].current_time >= DedupWindow

\* positions of the history strictly between i and j that hold a given type
Between(i, j, event_type) ==
    {k \in (i + 1)..(j - 1) : accepted[k].event_type = event_type}

\* C8: between two accepted door_open submissions there is an accepted
\* door_close, between two accepted door_close submissions an accepted
\* door_open, and between two accepted alarm_triggered submissions a reset of
\* the alarm dedup flag; every persisted event is one accepted submission.
C8_StateSuppression ==
    /\ \A i, j \in 1..Len(accepted) :
          (i < j /\ accepted[i].event_type = accepted[j].event_type)
          => /\ accepted[i].event_type = door_open_type
                => Between(i, j, door_close_type) # {}
             /\ accepted[i].event_type = door_close_type
                => Between(i, j, door_open_type) # {}
             /\ accepted[i].event_type = alarm_triggered_type
                => Between(i, j, AlarmReset.event_type) # {}
    /\ \A i \in 1..Len(EventLog) :
          /\ EventLog[i].acc \in 1..Len(accepted)
          /\ accepted[EventLog[i].acc].event_type = EventLog[i].event_type
          /\ \A j \in 1..Len(EventLog) : EventLog[j].acc = EventLog[i].acc => i = j

\* C8 witness: a door_open submission was rejected by the state rule, not by
\* the 2-second rule: its key has never been stamped.
C8_Witness ==
    \E t \in Threads :
        /\ th[t].event_type = door_open_type
        /\ th[t].res = "Deduplicated"
        /\ event_key(th[t].event_type, th[t].description) \notin DOMAIN last_event_timestamps

\* a step of thread t inside a submission that is not accepted
RejectedStep(t) ==
    \/ th[t].pc = "lock" /\ th'[t].pc = "dedup"
    \/ th[t].pc = "dedup" /\ th'[t].res = "Deduplicated"

\* C9: a rejected submission changes neither the event log (and so the
\* statistics), nor the broadcasts, the dedup flags or the timestamps.
C9_RejectionHasNoEffect ==
    [][\A t \in Threads :
          RejectedStep(t)
          => UNCHANGED <<EventLog, broadcasts, last_logged_door_state,
                         last_logged_alarm_state, last_event_timestamps>>]_vars

\* C9 witness: the monitor's door_open was rejected, and by the 2-second rule:
\* the door is recorded closed.
C9_Witness ==
    /\ th[Monitor].event_type = door_open_type
    /\ th[Monitor].res = "Deduplicated"
    /\ last_logged_door_state = "False"

\* threads between the start of the dedup check and the end of the broadcast
InSubmission == {t \in Threads : th[t].pc \in {"dedup", "persist"} \cup AfterCommit}

\* C10: no two submissions are at once between the start of their dedup
\* check and the end of their broadcast.
C10_SubmissionSerialized == Cardinality(InSubmission) <= 1

\* C11: every broadcast carries statistics whose total_events is the number
\* of the event it announces (the N-th persisted event) and whose per-type
\* counts (door_open, door_close, alarm) sum to that total.
C11_StatisticsConsistent ==
    \A k \in 1..Len(broadcasts) :
        LET statistics == broadcasts[k].statistics
        IN  /\ statistics.total_events = broadcasts[k].event
            /\ statistics.door_open_events + statistics.door_close_events
                  + statistics.alarm_events = statistics.total_events

\* C12: the monitor thread never ends: no failure inside one iteration of
\* its loop terminates monitor_door.
C12_MonitorNeverTerminates == th[Monitor].pc # "crashed"

\* the value read at lines 132-133 of the open edge that started countdown t
Snapshot(t) == episodes[th[t].episode].duration

\* the countdown's loop test at line 161 goes by the snapshot
ExpiryBySnapshot(t) ==
    (th[t].pc = "t161" /\ th'[t].pc # "t161")
    => (th'[t].pc = "t162"
          <=> (timer_active /\ now - th[t].start_time < Ticks(Snapshot(t))))

\* C13: the duration of a countdown is the value read at the open edge that
\* started it; it never changes while the countdown lives, the loop's expiry
\* test goes by it, and the alarm_triggered event of the countdown reports it,
\* whatever is stored in the setting meanwhile.
C13_SnapshotSemantics ==
    /\ [](\A t \in TimerIds :
             /\ th[t].duration = Snapshot(t)
             /\ \A i \in 1..Len(EventLog) :
                   (EventLog[i].by = t /\ EventLog[i].event_type = alarm_triggered_type)
                   => EventLog[i].description = AlarmDescription(Snapshot(t)))
    /\ [][\A t \in TimerIds : ExpiryBySnapshot(t)]_vars

\* C13 witness: the setting was changed after the open edge, while the
\* countdown was in flight, and the countdown has recorded its alarm with the
\* duration it started with.
C13_Witness ==
    \E t \in TimerIds : \E i, j, k \in 1..Len(EventLog) :
        /\ k < j /\ j < i
        /\ EventLog[k].by = Monitor
        /\ EventLog[k].event_type = door_open_type
        /\ EventLog[k].episode = th[t].episode
        /\ EventLog[j].event_type = setting_changed_type
        /\ EventLog[i].by = t
        /\ EventLog[i].event_type = alarm_triggered_type
        /\ Setting # ToString(th[t].duration)

\* the step in which smtplib raises inside send_alarm_email of countdown t
TransportFails(t) ==
    /\ th[t].pc = "t322"
    /\ th'[t].pc # "t322"
    /\ emails'[EmailOf(t)].transport # "ok"

\* C14: a failure of the transport, whatever its class, does not end the
\* countdown thread with an exception, removes nothing from the event log and
\* leaves alarm_active as it is.
C14_TransportFailureContained ==
    [][\A t \in TimerIds :
          TransportFails(t)
          => /\ th'[t].pc = "done"
             /\ EventLog' = EventLog
             /\ alarm_active' = alarm_active]_vars

\* C14 witness: a transport failure outside the SMTP classes happened after
\* the countdown had recorded its alarm_triggered event.
C14_Witness ==
    \E k \in 1..Len(emails) : \E i \in 1..Len(EventLog) :
        /\ emails[k].invoked
        /\ emails[k].transport = "OSError"
        /\ EventLog[i].by = emails[k].by
        /\ EventLog[i].event_type = alarm_triggered_type

\* C15: with no EmailConfig row, a row not marked configured, or a row
\* without sender, credential or recipients, send_alarm_email returns without
\* invoking the transport and without an exception.
C15_UnconfiguredIsNoOp ==
    \A k \in 1..Len(emails) :
        (\/ ~emails[k].config.present
         \/ ~emails[k].config.is_configured
         \/ ~emails[k].config.sender_email
         \/ ~emails[k].config.app_password
         \/ ~emails[k].config.recipient_emails)
        => /\ ~emails[k].invoked
           /\ emails[k].result = "skipped"
           /\ th[emails[k].by].pc = "done"

\* C15 witness: send_alarm_email was called with a configured row that has
\* no recipients.
C15_Witness ==
    \E k \in 1..Len(emails) :
        /\ emails[k].config = EmailConfigRow(TRUE, TRUE, TRUE, FALSE)
        /\ ~emails[k].invoked

\* the step in which the commit of thread t's accepted event fails
PersistFails(t) ==
    /\ th[t].pc = "persist"
    /\ th'[t].pc # "persist"
    /\ EventLog' = EventLog

\* C16: when persisting an accepted event fails, the submitter gets the
\* failure, an outcome that is neither Deduplicated nor Accepted (a thread
\* without a handler ends with it, create_user handles it and answers), and
\* door_open, alarm_active and timer_active keep their values.
C16_PersistenceFailureSurfaces ==
    [][\A t \in Threads :
          PersistFails(t)
          => /\ th'[t].res \notin {"Deduplicated", "Accepted", "none"}
             /\ th'[t].pc = (IF th[t].catches THEN "done" ELSE "crashed")
             /\ UNCHANGED <<door_open, alarm_active, timer_active>>]_vars

\* C16 witness: the commit of the monitor's door_open event failed; the flags
\* the open edge had set are still set and the event is not in the log.
C16_Witness ==
    /\ th[Monitor].event_type = door_open_type
    /\ th[Monitor].res = "PersistenceError"
    /\ door_open /\ timer_active
    /\ Count(EventLog, door_open_type) = 0

\* the step in which socketio.emit fails for the event thread t has persisted
BroadcastFails(t) ==
    /\ th[t].pc = "b269"
    /\ th'[t].pc # "b269"
    /\ broadcasts' = broadcasts

\* C17: a failure of the broadcast leaves the event log as it is and does
\* not raise into the submitter: log_event returns normally to its caller.
C17_BroadcastFailureContained ==
    [][\A t \in Threads :
          BroadcastFails(t)
          => /\ EventLog' = EventLog
             /\ th'[t].pc = th[t].ret
             /\ th'[t].res = "Accepted"]_vars

\* C18: the stored timer setting is the decimal form of a positive integer
\* in every reachable state, and so is every duration the monitor has read.
C18_DurationPositive ==
    /\ IsInt(Setting)
    /\ int(Setting) > 0
    /\ timer_duration > 0

\* C19: at most one monitor thread has been created, and exactly one once a
\* call of start_monitoring has returned.
C19_MonitorStartedOnce ==
    /\ Cardinality(MonitorIds) <= 1
    /\ (\E t \in CallerIds : th[t].pc = "done") => Cardinality(MonitorIds) = 1

\* C20: when the monitor has finished handling a close edge and no countdown
\* thread is alive, door_open, alarm_active and timer_active are false and the
\* alarm dedup flag is clear.  The condition lasts until the next open edge,
\* so the flags stay so until then.  Only runs without requests are
\* considered, so that nothing outside the monitor and the countdowns is
\* involved.
C20_IdleAfterClose ==
    (/\ RequestIds = {}
     /\ Len(episodes) > 0
     /\ episodes[Len(episodes)].close # None
     /\ th[Monitor].pc = "poll"
     /\ AliveTimers = {})
    => /\ ~door_open
       /\ ~alarm_active
       /\ ~timer_active
       /\ ~last_logged_alarm_state

\* the step that creates and starts a countdown thread
CountdownStarts == Cardinality(TimerIds') > Cardinality(TimerIds)

\* the step with which countdown thread t ends
CountdownEnds(t) == is_alive(t) /\ ~is_alive(t)'

\* C21: an open edge starts one countdown; when the countdown is started
\* timer_active is true and alarm_active is false; when it ends, and no later
\* open edge has been handled meanwhile, timer_active is false (alarm_active
\* true: ALARM, alarm_active false: IDLE).
C21_ArmedThenAlarmOrIdle ==
    /\ [](\A e \in 1..Len(episodes) :
             /\ Cardinality({t \in TimerIds : th[t].episode = e}) <= 1
             /\ (e < Len(episodes) \/ th[Monitor].pc = "poll")
                => Cardinality({t \in TimerIds : th[t].episode = e}) = 1)
    /\ [][/\ CountdownStarts => (timer_active /\ ~alarm_active)
          /\ \A t \in TimerIds :
                (CountdownEnds(t) /\ th[t].episode = Len(episodes)) => ~timer_active']_vars

\* the time limit of countdown t lies within the time the clock covers
WithinHorizon(t) ==
    (IF th[t].pc = "t157" THEN now ELSE th[t].start_time) + Ticks(th[t].duration) <= MaxTime

\* C22: every countdown thread whose time limit the clock reaches ends, and
\* the monitor waiting in join for such a countdown goes on to start the new
\* countdown and returns to sampling.
C22_CountdownTerminates ==
    /\ \A t \in 1..MaxInputs :
          []((t \in TimerIds /\ is_alive(t) /\ WithinHorizon(t))
             => <>(t \in TimerIds /\ ~is_alive(t)))
    /\ []((th[Monitor].pc = "m136" /\ (timer_thread # None => WithinHorizon(timer_thread)))
          => <>(th[Monitor].pc = "poll"))

\* a step of thread t inside log_event
SubmissionStep(t) ==
    th[t].pc \in {"lock", "dedup", "persist"} \cup AfterCommit /\ th'[t] # th[t]

\* a step of countdown t inside its call of send_alarm_email
DispatchStep(t) == th[t].pc \in {"t183", "t322"} /\ th'[t] # th[t]

\* the step of a request handler before it calls log_event or answers:
\* writing the setting, the EmailConfig row or the users
HandlerStep == Cardinality(RequestIds') > Cardinality(RequestIds)

\* C23: a step of event submission (accepted or rejected), of notification
\* dispatch or of a request handler leaves door_open, alarm_active and
\* timer_active unchanged.
C23_OnlyMonitorAndCountdownWriteDoorState ==
    [][(HandlerStep \/ \E t \in Threads : SubmissionStep(t) \/ DispatchStep(t))
       => UNCHANGED <<door_open, alarm_active, timer_active>>]_vars

\* C23 witness: with the alarm active, the notification was dispatched and an
\* administrator's change of the setting was accepted and persisted.
C23_Witness ==
    /\ alarm_active
    /\ emails # <<>>
    /\ Count(EventLog, setting_changed_type) > 0

\* the monitor is between the first and the last assignment of an edge
EdgeHandling == th[Monitor].pc \in {"m127", "m128", "m143", "m144", "m147"}

\* countdown t is between its test at line 174 and its assignments at 176-177
CheckAndSet(t) == th[t].pc \in {"t174d", "t176", "t177"}

\* C24: the monitor is never in the middle of handling an edge while another
\* thread is inside the dedup section of log_event or a countdown is between
\* its final test of the flags and its assignments to them.
C24_EdgeHandlingExclusive ==
    EdgeHandling
    => /\ \A t \in Threads \ {Monitor} : th[t].pc # "dedup"
       /\ \A t \in TimerIds : ~CheckAndSet(t)

\* C25: in every reachable state alarm_active implies door_open.
C25_AlarmImpliesOpen == alarm_active => door_open

\* C26: while the door is open no step of a countdown thread takes
\* alarm_active from true to false.
C26_AlarmStaysUntilClose ==
    [][\A t \in TimerIds :
          (door_open /\ alarm_active /\ th'[t] # th[t]) => alarm_active']_vars

\* the rows of the event log of the given type that thread t persisted
RowsBy(t, event_type) ==
    {i \in 1..Len(EventLog) : EventLog[i].by = t /\ EventLog[i].event_type = event_type}

\* C27: with no request submitted, whenever the monitor is idle the event
\* log holds one door_open row of the monitor per open edge and one
\* door_close row of the monitor per close edge.
C27_EveryEdgeRecorded ==
    (RequestIds = {} /\ th[Monitor].pc = "poll")
    => /\ Cardinality(RowsBy(Monitor, door_open_type)) = Len(episodes)
       /\ Cardinality(RowsBy(Monitor, door_close_type))
             = Cardinality({e \in 1..Len(episodes) : episodes[e].close # None})

\* row i of the event log is an alarm_triggered row of a countdown thread
AlarmRow(i) ==
    EventLog[i].event_type = alarm_triggered_type /\ EventLog[i].by \in TimerIds

\* C28: every alarm_triggered row of a countdown thread has before it the
\* monitor's door_open row of the countdown's episode, with no door_close
\* row of the monitor between the two.
C28_AlarmFollowsItsOpen ==
    \A i \in 1..Len(EventLog) :
        AlarmRow(i)
        => \E j \in 1..(i - 1) :
              /\ j \in RowsBy(Monitor, door_open_type)
              /\ EventLog[j].episode = th[EventLog[i].by].episode
              /\ \A k \in (j + 1)..(i - 1) : k \notin RowsBy(Monitor, door_close_type)

\* an event type the state rule of log_event has no branch for
OtherType(event_type) ==
    event_type \notin {door_open_type, door_close_type, alarm_triggered_type}

\* an event with the pair of thread t's submission was accepted less than
\* 2 seconds before the submission
SamePairRecently(t) ==
    \E i \in 1..Len(accepted) :
        /\ accepted[i].event_type = th[t].event_type
        /\ accepted[i].description = th[t].description
        /\ th[t].current_time - accepted[i].current_time < DedupWindow

\* C29: a submission whose type is not door_open, door_close or
\* alarm_triggered leaves last_logged_door_state and last_logged_alarm_state
\* unchanged, is accepted exactly when no event with the same pair was
\* accepted within the last 2 seconds, and once accepted is persisted.
C29_OtherTypesNotStateSuppressed ==
    [][\A t \in Threads :
          OtherType(th[t].event_type)
          => /\ (th[t].pc = "dedup" /\ th'[t].pc # "dedup")
                => /\ UNCHANGED <<last_logged_door_state, last_logged_alarm_state>>
                   /\ (th'[t].pc = "persist") <=> ~SamePairRecently(t)
             /\ (th[t].pc = "persist" /\ th'[t].pc # "persist")
                => /\ Len(EventLog') = Len(EventLog) + 1
                   /\ EventLog'[Len(EventLog')].event_type = th[t].event_type
                   /\ EventLog'[Len(EventLog')].description = th[t].description]_vars

\* the 2-second rule rejects the submission of thread t in this step
RejectedByTime(t) ==
    /\ th[t].pc = "dedup"
    /\ th'[t].pc # "dedup"
    /\ TimeDuplicate(event_key(th[t].event_type, th[t].description),
                     th[t].current_time, last_event_timestamps)

\* C30: a submission that the 2-second rule rejects has the event_type and
\* the description of an event accepted less than 2 seconds before it.
C30_KeyIdentifiesPair ==
    [][\A t \in Threads : RejectedByTime(t) => SamePairRecently(t)]_vars

====
